---- MODULE Spec2Model ----
(***************************************************************************)
(* Model of the texture-atlas packer of src/src/atlas.rs: the geometry     *)
(* (Size, Rect), the free-space split Rect::insert, and AtlasBuilder with  *)
(* its operations new, build, add_rect, min_bounding_rect and get_map.     *)
(*                                                                         *)
(* A Size is a record [width, height]; a Rect is a record                  *)
(* [left, top, size], as in the source.  An Option<Rect> is a sequence of  *)
(* length 0 (None) or 1 (Some).  The HashMap `textures` is a function      *)
(* whose domain is the set of keys present.                                *)
(*                                                                         *)
(* All dimensions of the model are far below 2^32, so the u32 arithmetic   *)
(* of the source (width*height, left+width) never wraps here.              *)
(***************************************************************************)
EXTENDS Integers, Sequences, FiniteSets, TLC

\* ------------------------------------------------------------------ bounds
\* canvases new(w, h) with w, h in 0..MaxDim
MaxDim == 2
\* image sides 0..MaxSide
MaxSide == 1
\* images handed to one builder over its lifetime (over all build calls)
MaxImages == 2
\* offsets of the free rectangle in the stand-alone check of Rect::insert
MaxOff == 1

Names == {"A", "B"}

Sz(w, h) == [width |-> w, height |-> h]
Rc(l, t, w, h) == [left |-> l, top |-> t, size |-> Sz(w, h)]

SmallSizes == {Sz(w, h) : w \in 0..MaxSide, h \in 0..MaxSide}
SmallCanvases == {Sz(w, h) : w \in 0..MaxDim, h \in 0..MaxDim}
\* the canvases and image sizes of the documented scenarios (20x10 with two
\* 10x10, 10x10 with 6x4 and 4x4, 5x5 with 10x10), and a 3x2 image that
\* splits a 4x4 side strip a second time
ScenarioCanvases == {Sz(20, 10), Sz(10, 10), Sz(5, 5)}
ScenarioSizes == {Sz(10, 10), Sz(6, 4), Sz(4, 4), Sz(3, 2)}
Canvases == SmallCanvases \cup ScenarioCanvases
SizesFor(cv) == IF cv \in ScenarioCanvases THEN ScenarioSizes ELSE SmallSizes

VARIABLES
    empty_spaces,   \* AtlasBuilder.empty_spaces : Vec<Rect>
    textures,       \* AtlasBuilder.textures : HashMap<String, Rect>
    pc,             \* position: "idle", "loop" (inside build's for), "done"
                    \* (build returned), "consumed" (get_map took the builder),
                    \* "insert"/"inserted" (stand-alone Rect::insert)
    data,           \* build's local `data`: what is left of the sorted Vec
    result,         \* build's return value: "none" (not returned), "Some", "None"
    atlas,          \* get_map's Atlas, as Option
    canvas,         \* history: the (width, height) given to new
    images,         \* history: the collection given to the current build
    log,            \* history: add_rect calls of the current build, in order
    prev,           \* history: builder fields before the last add_rect
    used,           \* history: number of images handed to this builder so far
    fresh,          \* history: the builder was fresh when the current build began
    placed,         \* history: number of add_rect calls that returned Some
    call            \* stand-alone Rect::insert: argument and result

vars == <<empty_spaces, textures, pc, data, result, atlas, canvas, images,
          log, prev, used, fresh, placed, call>>

\* ---------------------------------------------------------------- geometry
zero == Sz(0, 0)

fit_in(self, size) == self.width <= size.width /\ self.height <= size.height

Max2(a, b) == IF a >= b THEN a ELSE b

\* Size::max with the second field taken from the wrong component
max_typo(self, other) ==
    [width |-> Max2(self.width, other.width),
     height |-> Max2(self.height, other.width)]

max(self, other) ==
    [width |-> Max2(self.width, other.width),
     height |-> Max2(self.height, other.height)]

\* Rect::bound_size with width and height swapped
bound_size_swapped(self) ==
    [width |-> self.left + self.size.height,
     height |-> self.top + self.size.width]

bound_size(self) ==
    [width |-> self.left + self.size.width,
     height |-> self.top + self.size.height]

\* the first shrink without `self.top += size.height`
shrink_below_unmoved(self, size) ==
    [left |-> self.left,
     top |-> self.top,
     size |-> [width |-> self.size.width,
               height |-> self.size.height - size.height]]

\* the receiver after `self.size.height -= size.height; self.top += size.height`
shrink_below(self, size) ==
    [left |-> self.left,
     top |-> self.top + size.height,
     size |-> [width |-> self.size.width,
               height |-> self.size.height - size.height]]

\* the second shrink without `self.left += size.width`
shrink_right_unmoved(self, size) ==
    [left |-> self.left,
     top |-> self.top,
     size |-> [width |-> self.size.width - size.width,
               height |-> self.size.height]]

\* the receiver after `self.size.width -= size.width; self.left += size.width`
shrink_right(self, size) ==
    [left |-> self.left + size.width,
     top |-> self.top,
     size |-> [width |-> self.size.width - size.width,
               height |-> self.size.height]]

\* the new empty rectangle with the height of the receiver, not of the image
side_rect_full_height(self, size) ==
    [left |-> self.left + size.width,
     top |-> self.top,
     size |-> [width |-> self.size.width - size.width,
               height |-> self.size.height]]

\* the new empty rectangle `rect` of the general case
side_rect(self, size) ==
    [left |-> self.left + size.width,
     top |-> self.top,
     size |-> [width |-> self.size.width - size.width,
               height |-> size.height]]

\* Rect::insert(&mut self, size) -> Option<(Rect, Option<Rect>)>.
\* ok: the result is Some; r: the placed rectangle; other: the new empty
\* rectangle, if any; self: the receiver after the call.
insert(self, size) ==
    IF fit_in(size, self.size)
    THEN LET r == [left |-> self.left, top |-> self.top, size |-> size]
         IN  IF size.width = self.size.width
             THEN [ok |-> TRUE, r |-> <<r>>, other |-> << >>,
                   self |-> shrink_below(self, size)]
             ELSE IF size.height = self.size.height
             THEN [ok |-> TRUE, r |-> <<r>>, other |-> << >>,
                   self |-> shrink_right(self, size)]
             ELSE [ok |-> TRUE, r |-> <<r>>, other |-> << side_rect(self, size) >>,
                   self |-> shrink_below(self, size)]
    ELSE [ok |-> FALSE, r |-> << >>, other |-> << >>, self |-> self]

\* ------------------------------------------------------------ AtlasBuilder
\* AtlasBuilder::new
new(width, height) ==
    [empty_spaces |-> << Rc(0, 0, width, height) >>, textures |-> << >>]

\* the fold of min_bounding_rect over the values of the map
RECURSIVE fold_max(_, _)
fold_max(tex, keys) ==
    IF keys = {} THEN zero
    ELSE LET k == CHOOSE k \in keys : TRUE
         IN  max(fold_max(tex, keys \ {k}), bound_size(tex[k]))

min_bounding_rect(tex) == fold_max(tex, DOMAIN tex)

\* the iteration without .rev(): the first index whose rectangle admits `size`
RECURSIVE fwd_find(_, _, _)
fwd_find(spaces, size, i) ==
    IF i = 0 THEN 0
    ELSE LET j == Len(spaces) - i + 1
         IN  IF insert(spaces[j], size).ok THEN j
             ELSE fwd_find(spaces, size, i - 1)

\* the index add_rect's reversed iteration stops at: the last index whose
\* rectangle admits `size`, 0 when none does
RECURSIVE rev_find(_, _, _)
rev_find(spaces, size, i) ==
    IF i = 0 THEN 0
    ELSE IF insert(spaces[i], size).ok THEN i
    ELSE rev_find(spaces, size, i - 1)

\* an insertion that keeps the value of a key already present
map_insert_keep(tex, name, rect) ==
    [k \in (DOMAIN tex) \cup {name} |-> IF k \in DOMAIN tex THEN tex[k] ELSE rect]

\* HashMap::insert
map_insert(tex, name, rect) ==
    [k \in (DOMAIN tex) \cup {name} |-> IF k = name THEN rect ELSE tex[k]]

\* add_rect that records the identifier before it looks for a free rectangle
add_rect_records_first(spaces, tex, name, size) ==
    LET i == rev_find(spaces, size, Len(spaces))
    IN  IF i = 0
        THEN [ok |-> FALSE, idx |-> 0, r |-> << >>,
              empty_spaces |-> spaces,
              textures |-> map_insert(tex, name, [left |-> 0, top |-> 0, size |-> size])]
        ELSE LET res == insert(spaces[i], size)
             IN  [ok |-> TRUE, idx |-> i, r |-> res.r,
                  empty_spaces |-> [spaces EXCEPT ![i] = res.self] \o res.other,
                  textures |-> map_insert(tex, name, res.r[1])]

\* AtlasBuilder::add_rect: the builder's fields after the call, `ok` (Some
\* or None), the index of the free rectangle used and the rectangle placed
add_rect(spaces, tex, name, size) ==
    LET i == rev_find(spaces, size, Len(spaces))
    IN  IF i = 0
        THEN [ok |-> FALSE, idx |-> 0, r |-> << >>,
              empty_spaces |-> spaces, textures |-> tex]
        ELSE LET res == insert(spaces[i], size)
             IN  [ok |-> TRUE, idx |-> i, r |-> res.r,
                  empty_spaces |-> [spaces EXCEPT ![i] = res.self] \o res.other,
                  textures |-> map_insert(tex, name, res.r[1])]

\* the sort key of build: Reverse(size.height * size.width).  The product is
\* a u32 in the source; the sides of the model keep it below 2^32, where it
\* is the exact product.
area(size) == size.height * size.width

\* the place of x under an unstable sort: before the elements of equal key
place_unstable(s, x) ==
    SelectSeq(s, LAMBDA e : area(e.size) > area(x.size)) \o <<x>> \o
    SelectSeq(s, LAMBDA e : area(e.size) <= area(x.size))

\* the place of x in an already sorted s: behind every element whose key is
\* not greater under Reverse, i.e. whose area is >= x's
place(s, x) ==
    SelectSeq(s, LAMBDA e : area(e.size) >= area(x.size)) \o <<x>> \o
    SelectSeq(s, LAMBDA e : area(e.size) < area(x.size))

\* Vec::sort_by_key, a stable sort
RECURSIVE sort_by_key(_)
sort_by_key(s) ==
    IF s = << >> THEN << >>
    ELSE place(sort_by_key(SubSeq(s, 1, Len(s) - 1)), s[Len(s)])

\* the input collections: up to n (identifier, Size) pairs
Pairs(cv) == [name : Names, size : SizesFor(cv)]
Inputs(cv, n) == UNION {[1..k -> Pairs(cv)] : k \in 0..n}

\* `data` after collect: every pair with its index in the input (history)
collect(imgs) ==
    [i \in 1..Len(imgs) |-> [name |-> imgs[i].name, size |-> imgs[i].size, src |-> i]]

NoCall == [space |-> Rc(0, 0, 0, 0), size |-> zero, ret |-> << >>]

\* ------------------------------------------------------------------ actions
Init ==
    \E cv \in Canvases :
        /\ canvas = cv
        /\ empty_spaces = new(cv.width, cv.height).empty_spaces
        /\ textures = new(cv.width, cv.height).textures
        /\ pc = "idle"
        /\ data = << >>
        /\ result = "none"
        /\ atlas = << >>
        /\ images = << >>
        /\ log = << >>
        /\ prev = [empty_spaces |-> new(cv.width, cv.height).empty_spaces,
                   textures |-> new(cv.width, cv.height).textures]
        /\ used = 0
        /\ fresh = TRUE
        /\ placed = 0
        /\ call = NoCall

\* build, up to the loop: collect the input and sort it
build ==
    /\ pc \in {"idle", "done"}
    /\ \E imgs \in Inputs(canvas, MaxImages - used) :
        /\ images' = imgs
        /\ data' = sort_by_key(collect(imgs))
        /\ used' = used + Len(imgs)
    /\ fresh' = (pc = "idle")
    /\ pc' = "loop"
    /\ result' = "none"
    /\ log' = << >>
    /\ prev' = [empty_spaces |-> empty_spaces, textures |-> textures]
    /\ UNCHANGED <<empty_spaces, textures, atlas, canvas, placed, call>>

\* the iteration without the `?`: a failed add_rect is ignored
build_loop_ignores_failure ==
    /\ pc = "loop"
    /\ data # << >>
    /\ LET e == Head(data)
           res == add_rect(empty_spaces, textures, e.name, e.size)
       IN  /\ empty_spaces' = res.empty_spaces
           /\ textures' = res.textures
           /\ prev' = [empty_spaces |-> empty_spaces, textures |-> textures]
           /\ log' = Append(log, [name |-> e.name, size |-> e.size, src |-> e.src,
                                  ok |-> res.ok, idx |-> res.idx, r |-> res.r])
           /\ placed' = IF res.ok THEN placed + 1 ELSE placed
           /\ data' = Tail(data)
           /\ UNCHANGED <<pc, result>>
    /\ UNCHANGED <<atlas, canvas, images, used, fresh, call>>

\* one iteration of build's for loop: self.add_rect(name, size)?
build_loop ==
    /\ pc = "loop"
    /\ data # << >>
    /\ LET e == Head(data)
           res == add_rect(empty_spaces, textures, e.name, e.size)
       IN  /\ empty_spaces' = res.empty_spaces
           /\ textures' = res.textures
           /\ prev' = [empty_spaces |-> empty_spaces, textures |-> textures]
           /\ log' = Append(log, [name |-> e.name, size |-> e.size, src |-> e.src,
                                  ok |-> res.ok, idx |-> res.idx, r |-> res.r])
           /\ placed' = IF res.ok THEN placed + 1 ELSE placed
           /\ IF res.ok
              THEN /\ data' = Tail(data)
                   /\ UNCHANGED <<pc, result>>
              ELSE /\ data' = << >>
                   /\ pc' = "done"
                   /\ result' = "None"
    /\ UNCHANGED <<atlas, canvas, images, used, fresh, call>>

\* the loop is over: Some(())
build_return ==
    /\ pc = "loop"
    /\ data = << >>
    /\ pc' = "done"
    /\ result' = "Some"
    /\ UNCHANGED <<empty_spaces, textures, data, atlas, canvas, images, log,
                   prev, used, fresh, placed, call>>

\* get_map consumes the builder
get_map ==
    /\ pc \in {"idle", "done"}
    /\ atlas' = << [textures |-> textures, size |-> min_bounding_rect(textures)] >>
    /\ pc' = "consumed"
    /\ UNCHANGED <<empty_spaces, textures, data, result, canvas, images, log,
                   prev, used, fresh, placed, call>>

Next == build \/ build_loop \/ build_return \/ get_map

Spec == Init /\ [][Next]_vars

\* ------------------------------------------- Rect::insert on its own
\* the free rectangles and sizes Rect::insert is applied to
Spaces ==
    {Rc(l, t, w, h) : l \in 0..MaxOff, t \in 0..MaxOff, w \in 0..MaxDim, h \in 0..MaxDim}

InitInsert ==
    /\ \E sp \in Spaces, sz \in SmallSizes :
           call = [space |-> sp, size |-> sz, ret |-> << >>]
    /\ pc = "insert"
    /\ canvas = zero
    /\ empty_spaces = << >>
    /\ textures = << >>
    /\ data = << >>
    /\ result = "none"
    /\ atlas = << >>
    /\ images = << >>
    /\ log = << >>
    /\ prev = [empty_spaces |-> << >>, textures |-> << >>]
    /\ used = 0
    /\ fresh = TRUE
    /\ placed = 0

\* space.insert(size)
insert_call ==
    /\ pc = "insert"
    /\ call' = [call EXCEPT !.ret = << insert(call.space, call.size) >>]
    /\ pc' = "inserted"
    /\ UNCHANGED <<empty_spaces, textures, data, result, atlas, canvas, images,
                   log, prev, used, fresh, placed>>

NextInsert == insert_call

SpecInsert == InitInsert /\ [][NextInsert]_vars

\* ------------------------------------------------------------- properties
\* the interiors of a and b do not overlap
Disjoint(a, b) ==
    \/ a.left + a.size.width <= b.left
    \/ b.left + b.size.width <= a.left
    \/ a.top + a.size.height <= b.top
    \/ b.top + b.size.height <= a.top

\* a lies inside b
Inside(a, b) ==
    /\ b.left <= a.left
    /\ b.top <= a.top
    /\ a.left + a.size.width <= b.left + b.size.width
    /\ a.top + a.size.height <= b.top + b.size.height

\* a build on a fresh builder has returned Some
FreshSuccess == pc = "done" /\ result = "Some" /\ fresh

\* the last add_rect call of the current build, when there is one
Called == log # << >>
LastCall == log[Len(log)]

\* every identifier placed so far was placed once
DistinctIds == placed = Cardinality(DOMAIN textures)

\* C1: after a successful build on a fresh builder, any two distinct entries
\* of the placement map that both have positive area have non-overlapping
\* interiors.
C1_NonOverlap ==
    FreshSuccess =>
        \A n \in DOMAIN textures, m \in DOMAIN textures :
            (n # m /\ area(textures[n].size) > 0 /\ area(textures[m].size) > 0)
                => Disjoint(textures[n], textures[m])

C1_Witness ==
    /\ FreshSuccess
    /\ \E n \in DOMAIN textures, m \in DOMAIN textures :
        /\ n # m
        /\ area(textures[n].size) > 0
        /\ area(textures[m].size) > 0

\* s is the component-wise maximum of the bottom-right corners of tex's
\* rectangles, {0,0} for the empty map
IsMaxCorner(s, tex) ==
    /\ \A k \in DOMAIN tex :
        /\ tex[k].left + tex[k].size.width <= s.width
        /\ tex[k].top + tex[k].size.height <= s.height
    /\ \/ /\ DOMAIN tex = {}
          /\ s = [width |-> 0, height |-> 0]
       \/ /\ \E k \in DOMAIN tex : tex[k].left + tex[k].size.width = s.width
          /\ \E k \in DOMAIN tex : tex[k].top + tex[k].size.height = s.height

\* C2: the size min_bounding_rect reports, and the size get_map stores in the
\* Atlas beside the placement map, is the component-wise maximum of
\* (left+width, top+height) over the rectangles of the placement map, {0,0}
\* when the map is empty; so every placed rectangle ends within it.
C2_BoundingSize ==
    /\ IsMaxCorner(min_bounding_rect(textures), textures)
    /\ atlas # << >> =>
        /\ atlas[1].textures = textures
        /\ IsMaxCorner(atlas[1].size, atlas[1].textures)

C2_Witness ==
    /\ atlas # << >>
    /\ Cardinality(DOMAIN atlas[1].textures) = 2
    /\ \E n \in DOMAIN textures, m \in DOMAIN textures :
        /\ textures[n].left + textures[n].size.width = atlas[1].size.width
        /\ textures[n].top + textures[n].size.height < atlas[1].size.height
        /\ textures[m].top + textures[m].size.height = atlas[1].size.height

\* size fits some free rectangle of spaces
FitsSome(size, spaces) ==
    \E j \in 1..Len(spaces) :
        size.width <= spaces[j].size.width /\ size.height <= spaces[j].size.height

\* the i-th pair of the input collection, taken in sorted order
Sorted == sort_by_key(collect(images))

\* C3: when build has returned: it returned None exactly when an add_rect
\* call failed; a failed call is the last call made, for an image that fitted
\* no free rectangle when it was tried, and it left tracker and placement map
\* as they were, so that no later image of the sorted order was attempted;
\* the calls made are the first images of the sorted order, and every image
\* placed is in the placement map; Some is returned only when every image of
\* the input was placed.
C3_FailFast ==
    pc = "done" =>
        /\ (result = "None") <=> (\E i \in 1..Len(log) : ~log[i].ok)
        /\ result \in {"None", "Some"}
        /\ Len(log) <= Len(images)
        /\ \A i \in 1..Len(log) :
            /\ log[i].name = Sorted[i].name
            /\ log[i].size = Sorted[i].size
            /\ log[i].src = Sorted[i].src
            /\ ~log[i].ok => i = Len(log)
            /\ log[i].ok => log[i].name \in DOMAIN textures
        /\ (Called /\ ~LastCall.ok) =>
            /\ ~FitsSome(LastCall.size, prev.empty_spaces)
            /\ empty_spaces = prev.empty_spaces
            /\ textures = prev.textures
        /\ (Called /\ LastCall.ok) => FitsSome(LastCall.size, prev.empty_spaces)
        /\ result = "Some" =>
            /\ Len(log) = Len(images)
            /\ \A i \in 1..Len(log) : log[i].ok

\* build failed on the first of two images: the second was never attempted
C3_Witness ==
    /\ pc = "done"
    /\ result = "None"
    /\ Len(images) = 2
    /\ Len(log) = 1
    /\ textures = << >>
    /\ FitsSome(Sorted[2].size, empty_spaces)

\* the call of the current build whose rectangle the map should hold for the
\* identifier of log[i], under "the later entry of the input wins"
IsLatestInput(i) ==
    \A j \in 1..Len(log) : log[j].name = log[i].name => log[j].src <= log[i].src

\* C4 as stated: after a successful build on a fresh builder, the placement
\* map holds for every identifier the rectangle placed for the pair that
\* comes latest in the input collection among the pairs with that identifier.
C4_LaterInputWins ==
    FreshSuccess =>
        \A i \in 1..Len(log) :
            IsLatestInput(i) => textures[log[i].name] = log[i].r[1]

\* log[i] is placed after every other pair with its identifier: it has the
\* smaller area, or the same area and the later place in the input
IsPlacedLast(i) ==
    \A j \in 1..Len(log) :
        (j # i /\ log[j].name = log[i].name) =>
            \/ area(log[j].size) > area(log[i].size)
            \/ /\ area(log[j].size) = area(log[i].size)
               /\ log[j].src < log[i].src

\* C4 amended: after a successful build on a fresh builder, the placement map
\* holds for every identifier the rectangle placed for the pair of smallest
\* area among the pairs with that identifier, and among pairs of that area
\* for the one that comes latest in the input collection.
C4_LastPlacedWins ==
    FreshSuccess =>
        /\ \A i \in 1..Len(log) :
            IsPlacedLast(i) => textures[log[i].name] = log[i].r[1]
        /\ \A n \in DOMAIN textures :
            \E i \in 1..Len(log) : log[i].name = n /\ IsPlacedLast(i)

\* the earlier pair of the input is the smaller one, and its rectangle is in
\* the map
C4_Witness ==
    /\ FreshSuccess
    /\ Len(images) = 2
    /\ images[1].name = images[2].name
    /\ area(images[1].size) < area(images[2].size)
    /\ area(images[1].size) > 0
    /\ textures[images[1].name].size = images[1].size

\* C5: build calls add_rect in order of non-increasing area, two images of
\* equal area in the order of the input; every call is for a pair of the input
\* and no pair is tried twice.  [(n1,10x10),(n2,10x10)] on a 20x10 canvas puts
\* n1 at left 0 and n2 at left 10, whichever of A and B comes first.
C5_SortedStable ==
    /\ \A i \in 1..Len(log) :
        /\ log[i].src \in 1..Len(images)
        /\ log[i].name = images[log[i].src].name
        /\ log[i].size = images[log[i].src].size
    /\ \A i \in 1..Len(log), j \in 1..Len(log) :
        i < j =>
            \/ area(log[i].size) > area(log[j].size)
            \/ /\ area(log[i].size) = area(log[j].size)
               /\ log[i].src < log[j].src
    /\ pc = "loop" => Len(log) + Len(data) = Len(images)
    /\ ( /\ FreshSuccess
         /\ canvas = [width |-> 20, height |-> 10]
         /\ Len(images) = 2
         /\ images[1].name # images[2].name
         /\ images[1].size = [width |-> 10, height |-> 10]
         /\ images[2].size = [width |-> 10, height |-> 10] )
       => /\ textures[images[1].name] = Rc(0, 0, 10, 10)
          /\ textures[images[2].name] = Rc(10, 0, 10, 10)

C5_Witness ==
    /\ FreshSuccess
    /\ canvas = [width |-> 20, height |-> 10]
    /\ images = << [name |-> "B", size |-> [width |-> 10, height |-> 10]],
                   [name |-> "A", size |-> [width |-> 10, height |-> 10]] >>
    /\ textures["B"].left = 0
    /\ textures["A"].left = 10

\* the area of an Option<Rect>, 0 for None
OptArea(o) == IF o = << >> THEN 0 ELSE area(o[1].size)

\* C6: when size fits in the free rectangle F, Rect::insert succeeds and
\* yields a placed rectangle at F's top-left corner with exactly the
\* dimensions size; the areas of placed, leftover (0 if absent) and F after
\* the call add up to the area of F before; the three are pairwise
\* interior-disjoint and lie inside the original F; the leftover is absent
\* when the widths or the heights are equal.
C6_SplitConservation ==
    (pc = "inserted" /\ fit_in(call.size, call.space.size)) =>
        LET F == call.space
            ret == call.ret[1]
            placed_r == ret.r[1]
            shrunk == ret.self
        IN  /\ ret.ok
            /\ placed_r.left = F.left
            /\ placed_r.top = F.top
            /\ placed_r.size = call.size
            /\ area(placed_r.size) + OptArea(ret.other) + area(shrunk.size)
                   = area(F.size)
            /\ Disjoint(placed_r, shrunk)
            /\ Inside(placed_r, F)
            /\ Inside(shrunk, F)
            /\ shrunk.size.width >= 0
            /\ shrunk.size.height >= 0
            /\ ret.other # << >> =>
                /\ Disjoint(placed_r, ret.other[1])
                /\ Disjoint(ret.other[1], shrunk)
                /\ Inside(ret.other[1], F)
            /\ (ret.other = << >>) <=>
                   (call.size.width = F.size.width \/ call.size.height = F.size.height)

\* the general case: a leftover of positive area beside a placed rectangle
\* of positive area, and free space below
C6_Witness ==
    /\ pc = "inserted"
    /\ call.ret[1].ok
    /\ call.ret[1].other # << >>
    /\ area(call.ret[1].other[1].size) > 0
    /\ area(call.ret[1].r[1].size) > 0
    /\ area(call.ret[1].self.size) > 0
    /\ call.space.left > 0
    /\ call.space.top > 0

\* the last add_rect call returned Some for an image of width 0 or height 0
ZeroSidePlaced ==
    /\ Called
    /\ LastCall.ok
    /\ (LastCall.size.width = 0 \/ LastCall.size.height = 0)

\* C7 as stated: a successful add_rect of an image of width 0 or height 0
\* leaves min_bounding_rect as it was before the call.
C7_ZeroSideKeepsBox ==
    ZeroSidePlaced =>
        min_bounding_rect(textures) = min_bounding_rect(prev.textures)

\* C7 amended: while every identifier was placed once, a successful add_rect
\* of an image of width 0 leaves the width of min_bounding_rect as it was, and
\* one of an image of height 0 leaves its height as it was (an image of size
\* 0x0 leaves it unchanged); the other component grows to the image's end.
C7_ZeroSideKeepsThatSide ==
    (ZeroSidePlaced /\ DistinctIds) =>
        LET now == min_bounding_rect(textures)
            before == min_bounding_rect(prev.textures)
            r == LastCall.r[1]
        IN  /\ LastCall.size.width = 0 => now.width = before.width
            /\ LastCall.size.height = 0 => now.height = before.height
            /\ now.width = Max2(before.width, r.left + r.size.width)
            /\ now.height = Max2(before.height, r.top + r.size.height)

\* an image of width 0 and height 1 was placed and made the box higher
C7_Witness ==
    /\ ZeroSidePlaced
    /\ DistinctIds
    /\ LastCall.size = [width |-> 0, height |-> 1]
    /\ DOMAIN prev.textures # {}
    /\ min_bounding_rect(textures).height > min_bounding_rect(prev.textures).height
    /\ min_bounding_rect(textures).width = min_bounding_rect(prev.textures).width

\* the last index of spaces whose rectangle admits size, 0 if there is none
LastFit(size, spaces) ==
    IF FitsSome(size, spaces)
    THEN CHOOSE j \in 1..Len(spaces) :
            /\ FitsSome(size, << spaces[j] >>)
            /\ \A k \in (j + 1)..Len(spaces) : ~FitsSome(size, << spaces[k] >>)
    ELSE 0

\* C8: a successful add_rect uses the last tracker entry the image fits in:
\* the image is placed at that entry's top-left corner, that entry is replaced
\* by what Rect::insert leaves of it, every other entry is unchanged, and the
\* leftover, if there is one, is appended at the end, where the next image
\* tries it first.  Canvas 10x10 with [(A,6x4),(B,4x4)] gives A at {0,0,6,4},
\* B at {6,0,4,4} and the bounding size {10,4}.
C8_LastFitFirst ==
    /\ (Called /\ LastCall.ok) =>
        LET old == prev.empty_spaces
            i == LastFit(LastCall.size, old)
            res == insert(old[i], LastCall.size)
        IN  /\ i >= 1
            /\ LastCall.idx = i
            /\ textures[LastCall.name] = [left |-> old[i].left, top |-> old[i].top,
                                          size |-> LastCall.size]
            /\ LastCall.r = << textures[LastCall.name] >>
            /\ \A k \in DOMAIN prev.textures :
                   k # LastCall.name => textures[k] = prev.textures[k]
            /\ DOMAIN textures = DOMAIN prev.textures \cup {LastCall.name}
            /\ Len(empty_spaces) = Len(old) + Len(res.other)
            /\ \A j \in 1..Len(old) : j # i => empty_spaces[j] = old[j]
            /\ empty_spaces[i] = res.self
            /\ res.other # << >> => empty_spaces[Len(empty_spaces)] = res.other[1]
    /\ ( /\ FreshSuccess
         /\ canvas = [width |-> 10, height |-> 10]
         /\ images = << [name |-> "A", size |-> [width |-> 6, height |-> 4]],
                        [name |-> "B", size |-> [width |-> 4, height |-> 4]] >> )
       => /\ textures["A"] = Rc(0, 0, 6, 4)
          /\ textures["B"] = Rc(6, 0, 4, 4)
          /\ min_bounding_rect(textures) = [width |-> 10, height |-> 4]

\* the scenario: B went into the side strip left by A, not below A
C8_Witness ==
    /\ FreshSuccess
    /\ canvas = [width |-> 10, height |-> 10]
    /\ images = << [name |-> "A", size |-> [width |-> 6, height |-> 4]],
                   [name |-> "B", size |-> [width |-> 4, height |-> 4]] >>
    /\ LastCall.name = "B"
    /\ LastCall.idx = 2
    /\ Len(prev.empty_spaces) = 2
    /\ FitsSome(LastCall.size, << prev.empty_spaces[1] >>)

\* C9: an add_rect call for an image that fits no free rectangle returns
\* None and leaves the tracker (its length and every entry) and the placement
\* map as they were.  Canvas 5x5 with a single 10x10 image: build fails and
\* the placement map stays empty.
C9_FailureChangesNothing ==
    /\ (Called /\ ~FitsSome(LastCall.size, prev.empty_spaces)) =>
        /\ ~LastCall.ok
        /\ empty_spaces = prev.empty_spaces
        /\ textures = prev.textures
    /\ (Called /\ ~LastCall.ok) => ~FitsSome(LastCall.size, prev.empty_spaces)
    /\ ( /\ pc = "done"
         /\ fresh
         /\ canvas = [width |-> 5, height |-> 5]
         /\ Len(images) = 1
         /\ images[1].size = [width |-> 10, height |-> 10] )
       => /\ result = "None"
          /\ textures = << >>

\* a call failed on a builder that already holds a placement and two free
\* rectangles
C9_Witness ==
    /\ Called
    /\ ~LastCall.ok
    /\ Len(empty_spaces) = 2
    /\ DOMAIN textures # {}

RECURSIVE SumSeq(_)
SumSeq(rs) == IF rs = << >> THEN 0 ELSE area(Head(rs).size) + SumSeq(Tail(rs))

RECURSIVE SumMap(_, _)
SumMap(tex, keys) ==
    IF keys = {} THEN 0
    ELSE LET k == CHOOSE k \in keys : TRUE
         IN  area(tex[k].size) + SumMap(tex, keys \ {k})

CanvasRect == [left |-> 0, top |-> 0, size |-> canvas]

\* C10: for a builder made by new(W,H), while the identifiers of the add_rect
\* calls are pairwise distinct: the rectangles of the tracker and of the
\* placement map are pairwise interior-disjoint, each ends within W and H,
\* their areas add up to W*H, and the bounding size is within the canvas.
C10_Partition ==
    (pc \in {"idle", "loop", "done", "consumed"} /\ DistinctIds) =>
        /\ \A i \in 1..Len(empty_spaces), j \in 1..Len(empty_spaces) :
               i # j => Disjoint(empty_spaces[i], empty_spaces[j])
        /\ \A i \in 1..Len(empty_spaces), k \in DOMAIN textures :
               Disjoint(empty_spaces[i], textures[k])
        /\ \A k \in DOMAIN textures, m \in DOMAIN textures :
               k # m => Disjoint(textures[k], textures[m])
        /\ \A i \in 1..Len(empty_spaces) : Inside(empty_spaces[i], CanvasRect)
        /\ \A k \in DOMAIN textures : Inside(textures[k], CanvasRect)
        /\ SumSeq(empty_spaces) + SumMap(textures, DOMAIN textures)
               = canvas.width * canvas.height
        /\ min_bounding_rect(textures).width <= canvas.width
        /\ min_bounding_rect(textures).height <= canvas.height

\* two placements and three free rectangles, all of positive area
C10_Witness ==
    /\ placed = 2
    /\ Cardinality(DOMAIN textures) = 2
    /\ Len(empty_spaces) = 3
    /\ \A k \in DOMAIN textures : area(textures[k].size) > 0
    /\ \A i \in 1..3 : area(empty_spaces[i].size) > 0

====
